---- MODULE Spec2Model ----
(***************************************************************************)
(* Model of python-prompt: the one-shot renderer (prompt.py) and the       *)
(* socket server renderer (async_prompt.py).                               *)
(*                                                                         *)
(* Python strings are modelled as sequences of one-character strings       *)
(* (glyphs outside ASCII are one element each, as len() counts them).      *)
(***************************************************************************)
EXTENDS Integers, Sequences, FiniteSets, TLC

VARIABLES
    pc,                \* position of the running function
    terminal_width,    \* embed_in_horizontal_rule: terminal_width
    left_container,    \* PromptPartContainer (left of the top line)
    center_container,  \* PromptPartContainer (centre of the top line)
    right_container,   \* PromptPartContainer (right of the top line)
    topline,           \* the line returned by embed_in_horizontal_rule
    git,               \* what the three git invocations do in `directory`
    directory,         \* GitInfoFragment.directory (Option)
    mods,              \* result of _git_mod_info
    head,              \* result of _head_info / branch_info
    fragment,          \* the fragment under construction (content, color)
    pwd,               \* PWDFragment.pwd
    home,              \* HOME
    max_len,           \* PWDFragment max_len
    path,              \* PWDFragment.path
    environ,           \* the environment of the shell that asks for a prompt
    payload,           \* the text the client wrote to the socket
    client_environment,\* handle_client: the parsed mapping
    now,               \* datetime.now() of this render
    prompt_str,        \* handle_client: prompt_str
    rprompt,           \* handle_client: the rendered ReturnStatusFragment
    exc,               \* the exception that ended handle_client, or "none"
    reply,             \* what handle_client wrote to the connection
    closed,            \* writer.close() was called
    cli                \* outcome of prompt.py main() for the same context

ruleVars == <<terminal_width, left_container, center_container, right_container, topline>>
gitVars == <<git, directory, mods, head, fragment>>
pwdVars == <<pwd, home, max_len, path>>
srvVars == <<environ, payload, client_environment, now, prompt_str, rprompt, exc,
            reply, closed, cli>>

vars == <<pc, ruleVars, gitVars, pwdVars, srvVars>>

(***************************************************************************)
(* Bounds of the model                                                     *)
(***************************************************************************)
MaxWidth == 14     \* terminal widths 0..MaxWidth in the rule compositor runs
MaxParts == 2      \* fragments per container in the rule compositor runs
MaxStatusLines == 4 \* changed paths in one status listing
MaxPathLen == 9    \* generated working directories have 0..MaxPathLen characters
MaxMaxLen == 8     \* max_len ranges over 0..MaxMaxLen (and the default 60)
MaxConns == 2      \* connections the server handles concurrently

(***************************************************************************)
(* Python str helpers                                                      *)
(***************************************************************************)
Unused == <<>>

\* the variables a specification does not use keep these values
RuleUnused ==
    /\ terminal_width = 0 /\ left_container = Unused /\ center_container = Unused
    /\ right_container = Unused /\ topline = Unused
GitUnused ==
    /\ git = Unused /\ directory = Unused /\ mods = Unused /\ head = Unused
    /\ fragment = Unused
PwdUnused == pwd = Unused /\ home = Unused /\ max_len = 0 /\ path = Unused
SrvUnused ==
    /\ environ = Unused /\ payload = Unused /\ client_environment = Unused
    /\ now = Unused /\ prompt_str = Unused /\ rprompt = Unused /\ exc = "none"
    /\ reply = Unused
    /\ closed = FALSE /\ cli = Unused

\* s * n (n <= 0 gives the empty string)
Rep(c, n) == [i \in 1..n |-> c]

\* s[i:i+len(pat)] == pat
StartsAt(s, i, pat) ==
    /\ i >= 1
    /\ i + Len(pat) - 1 <= Len(s)
    /\ \A k \in 1..Len(pat) : s[i + k - 1] = pat[k]

\* str.find from position `from` (1-based); 0 when absent
Find(s, pat, from) ==
    IF \E i \in from..(Len(s) + 1) : StartsAt(s, i, pat)
    THEN CHOOSE i \in from..(Len(s) + 1) :
            /\ StartsAt(s, i, pat)
            /\ \A j \in from..(i - 1) : ~StartsAt(s, j, pat)
    ELSE 0

\* `pat in s`
Contains(s, pat) == Find(s, pat, 1) # 0

RECURSIVE ReplaceFrom(_, _, _, _)
ReplaceFrom(s, old, new, i) ==
    IF i > Len(s) THEN <<>>
    ELSE IF StartsAt(s, i, old)
         THEN new \o ReplaceFrom(s, old, new, i + Len(old))
         ELSE <<s[i]>> \o ReplaceFrom(s, old, new, i + 1)

RECURSIVE Interleave(_, _, _)
Interleave(s, new, i) ==
    IF i > Len(s) THEN new
    ELSE new \o <<s[i]>> \o Interleave(s, new, i + 1)

\* str.replace(old, new): every non-overlapping occurrence, left to right;
\* an empty `old` matches before every character and at the end
Replace(s, old, new) ==
    IF old = <<>> THEN Interleave(s, new, 1) ELSE ReplaceFrom(s, old, new, 1)

RECURSIVE Join(_, _)
\* sep.join(strs)
Join(sep, strs) ==
    IF strs = <<>> THEN <<>>
    ELSE IF Len(strs) = 1 THEN strs[1]
    ELSE strs[1] \o sep \o Join(sep, Tail(strs))

RECURSIVE SumSeq(_)
SumSeq(ns) == IF ns = <<>> THEN 0 ELSE ns[1] + SumSeq(Tail(ns))

RECURSIVE SelectNonEmpty(_)
SelectNonEmpty(strs) ==
    IF strs = <<>> THEN <<>>
    ELSE IF strs[1] = <<>> THEN SelectNonEmpty(Tail(strs))
    ELSE <<strs[1]>> \o SelectNonEmpty(Tail(strs))

Digits == <<"0", "1", "2", "3", "4", "5", "6", "7", "8", "9">>

RECURSIVE NatToStr(_)
NatToStr(n) ==
    IF n < 10 THEN <<Digits[n + 1]>>
    ELSE NatToStr(n \div 10) \o <<Digits[(n % 10) + 1]>>

\* str(n) of an int
IntToStr(n) == IF n < 0 THEN <<"-">> \o NatToStr(-n) ELSE NatToStr(n)

(***************************************************************************)
(* Colors, PromptPart, PromptPartContainer                                 *)
(***************************************************************************)
NO_COLOR == FALSE
RULE_CHAR == <<"~">>

ColorDefault == 0
ColorRed == 1
ColorGreen == 2
ColorBlue == 4
ColorTeal == 6
ColorGray == 21

EscOpen(value) ==
    <<"\\", "e", "[", "3", "8", ";", "5", ";">> \o NatToStr(value) \o <<"m">>
EscClose == <<"\\", "e", "[", "0", ";", "m">>

\* Colors.colorize
colorize(value, s, zero_width) ==
    IF NO_COLOR THEN s
    ELSE IF zero_width
         THEN <<"%", "{">> \o EscOpen(value) \o <<"%", "}">> \o s
              \o <<"%", "{">> \o EscClose \o <<"%", "}">>
         ELSE EscOpen(value) \o s \o EscClose

\* PromptPart.__init__ followed by a subclass setting content and color
Part(cls, content, color, last_cmd) ==
    [cls |-> cls, content |-> content, color |-> color, zero_width |-> TRUE,
     last_cmd |-> last_cmd]

\* PromptPart.__str__
PartStr(part) ==
    IF part.color = 0 THEN part.content
    ELSE colorize(part.color, part.content, part.zero_width)

\* PromptPart.__len__, overridden by LastCommandFragment.__len__
PartLen(part) ==
    IF part.cls = "LastCommandFragment"
    THEN IF part.last_cmd # <<>> THEN Len(part.last_cmd) + 2 ELSE 0
    ELSE Len(part.content)

\* PromptPartContainer.__init__
Container(parts, separator) == [separator |-> separator, parts |-> parts]

\* PromptPartContainer.__len__
ContainerLen(c) == SumSeq([i \in 1..Len(c.parts) |-> PartLen(c.parts[i])])

\* PromptPartContainer.__str__
ContainerStr(c) ==
    Join(c.separator,
         SelectNonEmpty([i \in 1..Len(c.parts) |->
                            IF c.parts[i].content # <<>> THEN PartStr(c.parts[i])
                            ELSE <<>>]))

\* PromptPartContainer.uncolorized_str
uncolorized_str(c) ==
    Join(c.separator,
         SelectNonEmpty([i \in 1..Len(c.parts) |-> c.parts[i].content]))

(***************************************************************************)
(* Optional values (a Python value that may be None)                       *)
(***************************************************************************)
Some(v) == [some |-> TRUE, v |-> v]
None == [some |-> FALSE, v |-> <<>>]

(***************************************************************************)
(* shlex.quote and LastCommandFragment                                     *)
(***************************************************************************)
\* the characters shlex.quote leaves alone: [\w@%+=:,./-]
SafeChars ==
    {"a", "b", "c", "d", "e", "f", "g", "h", "i", "j", "k", "l", "m", "n", "o",
     "p", "q", "r", "s", "t", "u", "v", "w", "x", "y", "z", "_",
     "0", "1", "2", "3", "4", "5", "6", "7", "8", "9",
     "@", "%", "+", "=", ":", ",", ".", "/", "-"}

\* shlex.quote
quote(s) ==
    IF s = <<>> THEN <<"'", "'">>
    ELSE IF \A i \in 1..Len(s) : s[i] \in SafeChars THEN s
    ELSE <<"'">> \o Replace(s, <<"'">>, <<"'", "\"", "'", "\"", "'">>) \o <<"'">>

\* LastCommandFragment.__init__ of async_prompt.py, format_str "['{}']"
LastCommandFragment(last_cmd, color) ==
    LET cmd == IF last_cmd.some THEN last_cmd.v ELSE <<>>
        content == IF cmd # <<>>
                   THEN <<"[", "'">>
                        \o Replace(quote(cmd), <<"\\">>, <<"\\", "\\">>)
                        \o <<"'", "]">>
                   ELSE <<>>
    IN Part("LastCommandFragment", content, color, cmd)

\* ColoredTextFragment.__init__
ColoredTextFragment(str, color) == Part("ColoredTextFragment", str, color, <<>>)

(***************************************************************************)
(* embed_in_horizontal_rule (async_prompt.py)                              *)
(***************************************************************************)
\* for part in container.parts: part.zero_width = False
NonZeroWidth(c) ==
    [c EXCEPT !.parts = [i \in 1..Len(c.parts) |->
                            [c.parts[i] EXCEPT !.zero_width = FALSE]]]

length_of_middle_container(width, left, right) ==
    width - ContainerLen(left) - ContainerLen(right)

needed_rule_chars(width, left, center, right) ==
    length_of_middle_container(width, left, right) - ContainerLen(center)

\* the mutant of center_str: the odd rule character goes to the right side
center_str_odd_right(width, left, center, right, rule_char) ==
    LET needed == needed_rule_chars(width, left, center, right)
        fill == needed \div 2
    IN IF needed > 0
       THEN Rep(rule_char, fill) \o ContainerStr(NonZeroWidth(center))
            \o Rep(rule_char, fill + (needed % 2))
       ELSE ContainerStr(NonZeroWidth(center))

\* center_str as embed_in_horizontal_rule builds it
center_str(width, left, center, right, rule_char) ==
    LET needed == needed_rule_chars(width, left, center, right)
        left_right_fill_length ==
            (length_of_middle_container(width, left, right) - ContainerLen(center)) \div 2
    IN IF needed > 0
       THEN Rep(rule_char, left_right_fill_length + (needed % 2))
            \o ContainerStr(NonZeroWidth(center))
            \o Rep(rule_char, left_right_fill_length)
       ELSE ContainerStr(NonZeroWidth(center))

\* the mutant of embed_in_horizontal_rule: the middle budget forgets the right container
embed_forgets_right(width, left, center, right, rule_char) ==
    ContainerStr(NonZeroWidth(left))
    \o center_str(width, left, center, Container(<<>>, <<>>), rule_char)
    \o ContainerStr(NonZeroWidth(right))

embed_in_horizontal_rule(width, left, center, right, rule_char) ==
    ContainerStr(NonZeroWidth(left))
    \o center_str(width, left, center, right, rule_char)
    \o ContainerStr(NonZeroWidth(right))

(***************************************************************************)
(* Visible text of a rendered line: colour escape sequences removed        *)
(***************************************************************************)
RECURSIVE StripFrom(_, _)
StripFrom(s, i) ==
    IF i > Len(s) THEN <<>>
    ELSE IF StartsAt(s, i, <<"\\", "e", "[">>) /\ Find(s, <<"m">>, i + 3) # 0
         THEN StripFrom(s, Find(s, <<"m">>, i + 3) + 1)
         ELSE <<s[i]>> \o StripFrom(s, i + 1)

StripColors(s) == StripFrom(s, 1)

(***************************************************************************)
(* SpecRule: embed_in_horizontal_rule applied to bounded containers        *)
(***************************************************************************)
RulePartSet ==
    { ColoredTextFragment(<<"a", "b">>, ColorTeal),
      ColoredTextFragment(<<>>, ColorDefault),
      LastCommandFragment(Some(<<"l", "s">>), ColorGreen) }

PartSeqs(n) == UNION { [1..k -> RulePartSet] : k \in 0..n }

RuleContainerSet == { Container(ps, sep) : ps \in PartSeqs(MaxParts), sep \in {<<>>, RULE_CHAR} }

RuleRightSet ==
    { Container(<<p>>, RULE_CHAR) :
        p \in RulePartSet \cup { ColoredTextFragment(<<"[", "t", "]">>, ColorGray) } }

InitRule ==
    /\ pc = "embed"
    /\ terminal_width \in 0..MaxWidth
    /\ left_container \in RuleContainerSet
    /\ center_container \in RuleContainerSet
    /\ right_container \in RuleRightSet
    /\ topline = <<>>
    /\ GitUnused /\ PwdUnused /\ SrvUnused

\* one call of embed_in_horizontal_rule: the parts lose zero_width, the line is returned
Embed ==
    /\ pc = "embed"
    /\ topline' = embed_in_horizontal_rule(terminal_width, left_container,
                                           center_container, right_container, RULE_CHAR[1])
    /\ left_container' = NonZeroWidth(left_container)
    /\ center_container' = NonZeroWidth(center_container)
    /\ right_container' = NonZeroWidth(right_container)
    /\ pc' = "done"
    /\ UNCHANGED <<terminal_width, gitVars, pwdVars, srvVars>>

NextRule == Embed

SpecRule == InitRule /\ [][NextRule]_vars

(***************************************************************************)
(* Claims about the rule compositor (checked under SpecRule)               *)
(***************************************************************************)
Fits ==
    ContainerLen(center_container)
        <= terminal_width - ContainerLen(left_container) - ContainerLen(right_container)

\* what a container shows beyond its declared display width: the characters of its
\* plain text (contents joined by the separator) minus PromptPartContainer.__len__
Excess(c) == Len(uncolorized_str(c)) - ContainerLen(c)

TotalExcess ==
    Excess(left_container) + Excess(center_container) + Excess(right_container)

\* C1 (as claimed): whenever the centre fits, the returned line has exactly
\* terminal_width visible characters (its length with the colour escapes removed).
C1_VisibleWidthExact ==
    (pc = "done" /\ Fits) => Len(StripColors(topline)) = terminal_width

\* C1 (amended): whenever the centre fits, the visible character count of the
\* returned line is terminal_width plus what the containers show beyond their
\* declared widths (quotes of the last command, emitted separators); it is exactly
\* terminal_width when nothing is shown beyond the declared widths.
C1_VisibleWidth ==
    (pc = "done" /\ Fits) =>
        /\ Len(StripColors(topline)) = terminal_width + TotalExcess
        /\ (TotalExcess = 0 => Len(StripColors(topline)) = terminal_width)

\* C1 witness: a coloured, fitting line with rule characters on both sides whose
\* visible width is exactly the terminal width.
C1_Witness ==
    /\ pc = "done" /\ Fits /\ TotalExcess = 0
    /\ needed_rule_chars(terminal_width, left_container, center_container,
                         right_container) >= 2
    /\ ContainerLen(left_container) > 0
    /\ ContainerLen(center_container) > 0
    /\ Len(topline) > terminal_width
    /\ Len(StripColors(topline)) = terminal_width

\* C2: when fill > 0 the rendered centre is preceded by fill // 2 + fill % 2 rule
\* characters and followed by fill // 2 rule characters, between the rendered left
\* and right containers.
C2_OddFillGoesLeft ==
    LET fill == needed_rule_chars(terminal_width, left_container, center_container,
                                  right_container)
        L == Len(ContainerStr(left_container))
        C == Len(ContainerStr(center_container))
        R == Len(ContainerStr(right_container))
        lf == (fill \div 2) + (fill % 2)
        rf == fill \div 2
    IN (pc = "done" /\ fill > 0) =>
        /\ Len(topline) = L + lf + C + rf + R
        /\ SubSeq(topline, 1, L) = ContainerStr(left_container)
        /\ \A i \in (L + 1)..(L + lf) : topline[i] = RULE_CHAR[1]
        /\ SubSeq(topline, L + lf + 1, L + lf + C) = ContainerStr(center_container)
        /\ \A i \in (L + lf + C + 1)..(L + lf + C + rf) : topline[i] = RULE_CHAR[1]
        /\ SubSeq(topline, L + lf + C + rf + 1, Len(topline))
               = ContainerStr(right_container)

\* C2 witness: fill = 7 around a non-empty centre: 4 rule characters on the left,
\* 3 on the right.
C2_Witness ==
    LET L == Len(ContainerStr(left_container))
        C == Len(ContainerStr(center_container))
    IN /\ pc = "done"
       /\ needed_rule_chars(terminal_width, left_container, center_container,
                            right_container) = 7
       /\ C > 0
       /\ SubSeq(topline, L + 1, L + 4) = Rep(RULE_CHAR[1], 4)
       /\ SubSeq(topline, L + 4 + C + 1, L + 4 + C + 3) = Rep(RULE_CHAR[1], 3)
       /\ SubSeq(topline, L + 5, L + 4 + C) = ContainerStr(center_container)

(***************************************************************************)
(* The repository as git reports it: the text of `git status -s`,          *)
(* `git branch` and `git tag`, and how an invocation can fail              *)
(***************************************************************************)

Line_A_new == <<"A", " ", " ", "n">>            \* added (staged)
Line_A_other == <<"A", " ", " ", "o">>          \* a second added path
Line_M_changed == <<" ", "M", " ", "c">>        \* modified (worktree)
Line_D_gone == <<" ", "D", " ", "d">>           \* deleted (worktree)
Line_untracked == <<"?", "?", " ", "u">>        \* untracked
Line_renamed == <<"R", " ", " ", "a", " ", "-", ">", " ", "b">>
Line_MM == <<"M", "M", " ", "f">>               \* staged and modified again
Line_AM == <<"A", "M", " ", "g">>               \* added and modified again

StatusLineOrder ==
    <<Line_A_new, Line_A_other, Line_M_changed, Line_D_gone, Line_untracked,
      Line_renamed, Line_MM, Line_AM>>

StatusSets ==
    { S \in SUBSET (1..Len(StatusLineOrder)) : Cardinality(S) <= MaxStatusLines }

Name_main == <<"m", "a", "i", "n">>
Name_dev == <<"d", "e", "v">>
Name_v1 == <<"v", "1">>
Name_v1_2 == <<"v", "1", ".", "2">>
Name_hash == <<"1", "a", "2", "b">>

\* HEAD as the repository has it
HeadStates ==
    { [kind |-> "none", name |-> <<>>],
      [kind |-> "branch", name |-> Name_main],
      [kind |-> "branch", name |-> Name_dev],
      [kind |-> "detached_at", name |-> Name_v1],
      [kind |-> "detached_at", name |-> Name_v1_2],
      [kind |-> "detached_at", name |-> Name_hash],
      [kind |-> "detached_from", name |-> Name_v1] }

TagSets == SUBSET {Name_v1, Name_v1_2}

Outcomes == {"ok", "CalledProcessError", "TimeoutExpired"}

NoFailure == [status |-> "ok", branch |-> "ok", tag |-> "ok"]

OneFailure ==
    { [NoFailure EXCEPT ![c] = e] :
        c \in {"status", "branch", "tag"}, e \in Outcomes \ {"ok"} }

Repo(h, tags, status, fail, installed) ==
    [head |-> h, tags |-> tags, status |-> status, fail |-> fail,
     installed |-> installed]

RECURSIVE LinesOf(_, _, _)
\* the lines of `order` whose index is in S, each ended by a newline
LinesOf(order, S, i) ==
    IF i > Len(order) THEN <<>>
    ELSE (IF i \in S THEN order[i] \o <<"\n">> ELSE <<>>) \o LinesOf(order, S, i + 1)

\* stdout of `git status -s --porcelain=v1`
GitStatusOutput(repo) == LinesOf(StatusLineOrder, repo.status, 1)

DetachedAtPrefix ==
    <<"*", " ", "(", "H", "E", "A", "D", " ", "d", "e", "t", "a", "c", "h", "e", "d",
      " ", "a", "t", " ">>
DetachedFromPrefix ==
    <<"*", " ", "(", "H", "E", "A", "D", " ", "d", "e", "t", "a", "c", "h", "e", "d",
      " ", "f", "r", "o", "m", " ">>

\* stdout of `git branch`: the current ref marked "* ", the others indented
GitBranchOutput(repo) ==
    LET h == repo.head
        other(n) == <<" ", " ">> \o n \o <<"\n">>
    IN CASE h.kind = "none" -> <<>>
         [] h.kind = "branch" ->
                (IF h.name # Name_dev THEN other(Name_dev) ELSE <<>>)
                \o <<"*", " ">> \o h.name \o <<"\n">>
                \o (IF h.name # Name_main THEN other(Name_main) ELSE <<>>)
         [] h.kind = "detached_at" ->
                DetachedAtPrefix \o h.name \o <<")", "\n">> \o other(Name_main)
         [] h.kind = "detached_from" ->
                DetachedFromPrefix \o h.name \o <<")", "\n">> \o other(Name_main)

\* stdout of `git tag`: one tag name per line
GitTagOutput(repo) ==
    (IF Name_v1 \in repo.tags THEN Name_v1 \o <<"\n">> ELSE <<>>)
    \o (IF Name_v1_2 \in repo.tags THEN Name_v1_2 \o <<"\n">> ELSE <<>>)

(***************************************************************************)
(* subprocess.run, with check=True and a timeout                           *)
(***************************************************************************)
Ok(v) == [exc |-> "none", val |-> v]
Raise(e) == [exc |-> e, val |-> <<>>]

\* run(["git", "-C", directory, ...]): a None in the argument list is a TypeError,
\* a missing binary a FileNotFoundError, a non-zero exit a CalledProcessError
run(dir, repo, cmd, stdout) ==
    IF ~dir.some THEN Raise("TypeError")
    ELSE IF ~repo.installed THEN Raise("FileNotFoundError")
    ELSE IF repo.fail[cmd] # "ok" THEN Raise(repo.fail[cmd])
    ELSE Ok(stdout)

(***************************************************************************)
(* GitInfoFragment                                                         *)
(***************************************************************************)
Whitespace == {" ", "\t", "\n", "\r"}

LineStart(s, p) == p = 1 \/ s[p - 1] = "\n"

\* first newline at or after i, or Len(s) + 1
LineEnd(s, i) ==
    IF \E j \in i..Len(s) : s[j] = "\n"
    THEN CHOOSE j \in i..Len(s) : s[j] = "\n" /\ \A k \in i..(j - 1) : s[k] # "\n"
    ELSE Len(s) + 1

\* search(r"^\s?<code>.*$", s, MULTILINE)
SearchStatus(s, code, optional_space) ==
    \E p \in 1..Len(s) :
        /\ LineStart(s, p)
        /\ \/ StartsAt(s, p, code)
           \/ optional_space /\ s[p] \in Whitespace /\ StartsAt(s, p + 1, code)

\* GitInfoFragment.mod_indicator_re, in the order of the dict
ModNames == <<"added", "modified", "deleted", "unknown">>

mod_indicator_re(mod, s) ==
    CASE mod = "added" -> SearchStatus(s, <<"A", " ", " ">>, TRUE)
      [] mod = "modified" -> SearchStatus(s, <<"M", " ">>, TRUE)
      [] mod = "deleted" -> SearchStatus(s, <<"D", " ">>, TRUE)
      [] mod = "unknown" -> SearchStatus(s, <<"?", "?", " ">>, FALSE)

\* indicators of GitInfoFragment.__init__
indicators(mod) ==
    CASE mod = "added" -> "+"
      [] mod = "modified" -> "!"
      [] mod = "deleted" -> "-"
      [] mod = "unknown" -> "?"

\* code points of the glyphs, as sorted() orders them
Ord(c) ==
    CASE c = "!" -> 33
      [] c = "+" -> 43
      [] c = "-" -> 45
      [] c = "?" -> 63

RECURSIVE Filter4(_, _, _)
Filter4(names, s, i) ==
    IF i > Len(names) THEN <<>>
    ELSE (IF mod_indicator_re(names[i], s) THEN <<names[i]>> ELSE <<>>)
         \o Filter4(names, s, i + 1)

\* GitInfoFragment._git_mod_info
git_mod_info(dir, repo) ==
    LET r == run(dir, repo, "status", GitStatusOutput(repo))
    IN IF r.exc # "none" THEN r ELSE Ok(Filter4(ModNames, r.val, 1))

RECURSIVE Insert(_, _)
Insert(c, sorted) ==
    IF sorted = <<>> THEN <<c>>
    ELSE IF Ord(c) < Ord(sorted[1]) THEN <<c>> \o sorted
    ELSE <<sorted[1]>> \o Insert(c, Tail(sorted))

RECURSIVE Sorted(_)
\* sorted() of a sequence of glyphs
Sorted(cs) == IF cs = <<>> THEN <<>> ELSE Insert(cs[1], Sorted(Tail(cs)))

\* the mutant of mod_symbols: the glyphs in bucket order, not sorted
mod_symbols_unsorted(mod_names) ==
    [i \in 1..Len(mod_names) |-> indicators(mod_names[i])]

\* "".join(sorted(indicators[mod] for mod in self._git_mod_info()))
mod_symbols(mod_names) ==
    Sorted([i \in 1..Len(mod_names) |-> indicators(mod_names[i])])

mod_str(mod_names) ==
    IF mod_symbols(mod_names) = <<>> THEN <<>>
    ELSE <<"|">> \o mod_symbols(mod_names) \o <<"|">>

\* positions where GIT_COMMIT_OR_TAG_REGEX can match: the prefix, then a ")" on
\* the same line
DetachedMatchAt(s, p) ==
    /\ StartsAt(s, p, DetachedAtPrefix)
    /\ \E q \in (p + Len(DetachedAtPrefix))..(LineEnd(s, p) - 1) : s[q] = ")"

\* search(GIT_COMMIT_OR_TAG_REGEX, s): the leftmost match, its group greedy
commit_or_tag_match(s) ==
    IF \E p \in 1..Len(s) : DetachedMatchAt(s, p)
    THEN LET p == CHOOSE p \in 1..Len(s) :
                    DetachedMatchAt(s, p) /\ \A j \in 1..(p - 1) : ~DetachedMatchAt(s, j)
             from == p + Len(DetachedAtPrefix)
             q == CHOOSE q \in from..(LineEnd(s, p) - 1) :
                    s[q] = ")" /\ \A k \in (q + 1)..(LineEnd(s, p) - 1) : s[k] # ")"
         IN Some(SubSeq(s, from, q - 1))
    ELSE None

\* search(GIT_REGULAR_BRANCH_REGEX, s)
branch_name_match(s) ==
    LET p == Find(s, <<"*", " ">>, 1)
    IN IF p = 0 THEN None ELSE Some(SubSeq(s, p + 2, LineEnd(s, p + 2) - 1))

\* GitInfoFragment.is_tag: `tag_str in stdout`
is_tag(dir, repo, tag_str) ==
    LET r == run(dir, repo, "tag", GitTagOutput(repo))
    IN IF r.exc # "none" THEN r ELSE Ok(Contains(r.val, tag_str))

Prefix_T == <<"(", "T", ")", " ">>
Prefix_D == <<"(", "D", ")", " ">>
Prefix_B == <<"(", "B", ")", " ">>
DefaultHead == Prefix_B \o <<"m", "a", "s", "t", "e", "r">>

\* the mutant of head_info: the regular-branch pattern is tried first
head_info_branch_first(dir, repo) ==
    LET r == run(dir, repo, "branch", GitBranchOutput(repo))
    IN IF r.exc # "none" THEN r
       ELSE IF branch_name_match(r.val).some
            THEN Ok(Prefix_B \o branch_name_match(r.val).v)
       ELSE IF commit_or_tag_match(r.val).some
            THEN LET head_name == commit_or_tag_match(r.val).v
                     t == is_tag(dir, repo, head_name)
                 IN IF t.exc # "none" THEN t
                    ELSE Ok((IF t.val THEN Prefix_T ELSE Prefix_D) \o head_name)
       ELSE Ok(DefaultHead)

\* GitInfoFragment._head_info
head_info(dir, repo) ==
    LET r == run(dir, repo, "branch", GitBranchOutput(repo))
    IN IF r.exc # "none" THEN r
       ELSE IF commit_or_tag_match(r.val).some
            THEN LET head_name == commit_or_tag_match(r.val).v
                     t == is_tag(dir, repo, head_name)
                 IN IF t.exc # "none" THEN t
                    ELSE Ok((IF t.val THEN Prefix_T ELSE Prefix_D) \o head_name)
       ELSE IF branch_name_match(r.val).some
            THEN Ok(Prefix_B \o branch_name_match(r.val).v)
       ELSE Ok(DefaultHead)

\* the exceptions GitInfoFragment.__init__ catches
Caught == {"CalledProcessError", "TimeoutExpired"}

EmptyPart(cls) == Part(cls, <<>>, ColorDefault, <<>>)

\* GitInfoFragment.__init__ as one call: the fragment, or the exception it lets through
GitInfoFragment(dir, repo, color) ==
    LET m == git_mod_info(dir, repo)
        h == head_info(dir, repo)
    IN IF m.exc \in Caught THEN Ok(EmptyPart("GitInfoFragment"))
       ELSE IF m.exc # "none" THEN Raise(m.exc)
       ELSE IF h.exc \in Caught THEN Ok(EmptyPart("GitInfoFragment"))
       ELSE IF h.exc # "none" THEN Raise(h.exc)
       ELSE Ok(Part("GitInfoFragment",
                    <<"[">> \o h.val \o mod_str(m.val) \o <<"]">>, color, <<>>))

(***************************************************************************)
(* SpecGit: GitInfoFragment.__init__ over bounded repositories             *)
(***************************************************************************)
Dir_repo == <<"/", "r">>

FullRepos ==
    { Repo(h, t, st, NoFailure, TRUE) : h \in HeadStates, t \in TagSets, st \in StatusSets }

FailingRepos ==
    { Repo(h, {Name_v1}, {1}, f, inst) :
        h \in { [kind |-> "branch", name |-> Name_main],
                [kind |-> "detached_at", name |-> Name_v1] },
        f \in OneFailure \cup {NoFailure}, inst \in BOOLEAN }

InitGit ==
    /\ pc = "status"
    /\ \/ directory = Some(Dir_repo) /\ git \in FullRepos
       \/ directory \in {Some(Dir_repo), None} /\ git \in FailingRepos
    /\ mods = Ok(<<>>)
    /\ head = Ok(<<>>)
    /\ fragment = EmptyPart("GitInfoFragment")       \* super().__init__()
    /\ RuleUnused /\ PwdUnused /\ SrvUnused

AfterCall(r, next) ==
    IF r.exc = "none" THEN next ELSE IF r.exc \in Caught THEN "except" ELSE "raised"

\* mod_symbols = ... self._git_mod_info() ...
GitModInfo ==
    /\ pc = "status"
    /\ mods' = git_mod_info(directory, git)
    /\ pc' = AfterCall(mods', "branch")
    /\ UNCHANGED <<ruleVars, git, directory, head, fragment, pwdVars, srvVars>>

\* format_dict = {"head": self.branch_info(), ...}
BranchInfo ==
    /\ pc = "branch"
    /\ head' = head_info(directory, git)
    /\ pc' = AfterCall(head', "format")
    /\ UNCHANGED <<ruleVars, git, directory, mods, fragment, pwdVars, srvVars>>

\* else: self.content = format_str.format(**format_dict); self.color = color
GitFormat ==
    /\ pc = "format"
    /\ fragment' = [fragment EXCEPT
                        !.content = <<"[">> \o head.val \o mod_str(mods.val) \o <<"]">>,
                        !.color = ColorBlue]
    /\ pc' = "done"
    /\ UNCHANGED <<ruleVars, git, directory, mods, head, pwdVars, srvVars>>

\* except CalledProcessError / TimeoutExpired: pass
GitExcept ==
    /\ pc = "except"
    /\ pc' = "done"
    /\ UNCHANGED <<ruleVars, gitVars, pwdVars, srvVars>>

NextGit == GitModInfo \/ BranchInfo \/ GitFormat \/ GitExcept

SpecGit == InitGit /\ [][NextGit]_vars

(***************************************************************************)
(* Claims about the git fragment (checked under SpecGit)                   *)
(***************************************************************************)
\* the constructor finished through its else branch
Built == pc = "done" /\ mods.exc = "none" /\ head.exc = "none"

\* the fragment's content is "[" head modifier "]"
HasModifier(m) == fragment.content = <<"[">> \o head.val \o m \o <<"]">>

\* C3 (as claimed): detached at X, the head descriptor is "(T) X" if and only if X
\* is one of the listed tag names, and "(D) X" for every X that is not a listed tag.
C3_TagIffListed ==
    (Built /\ git.head.kind = "detached_at") =>
        LET X == git.head.name
        IN /\ (head.val = Prefix_T \o X) <=> (X \in git.tags)
           /\ (X \notin git.tags) => (head.val = Prefix_D \o X)

\* C4: a "detached at X" current ref gives a (T)/(D) descriptor, never (B); a
\* current named branch N gives "(B) N"; no current-branch line gives "(B) master".
C4_HeadPrecedence ==
    Built =>
        LET h == git.head
        IN /\ (h.kind = "detached_at") =>
                /\ head.val \in {Prefix_T \o h.name, Prefix_D \o h.name}
                /\ SubSeq(head.val, 1, 4) # Prefix_B
           /\ (h.kind = "branch") => head.val = Prefix_B \o h.name
           /\ (h.kind = "none") => head.val = DefaultHead

\* C4 witness: a listing with a detached current ref next to a named branch was
\* classified (D), and the fragment was built from it.
C4_Witness ==
    /\ Built /\ git.head.kind = "detached_at"
    /\ Contains(GitBranchOutput(git), <<" ", " ">> \o Name_main)
    /\ head.val = Prefix_D \o git.head.name
    /\ SubSeq(fragment.content, 1, 5) = <<"[">> \o Prefix_D

Status_A_M_U == {1, 3, 5}        \* "A  n", " M c", "?? u"
Status_A_A_M_U == {1, 2, 3, 5}   \* the same with a second added line

\* C5 (as claimed): for one added, one modified and one untracked line the modifier
\* string is exactly "|+!?|", also with a second added line.
C5_ModifierAsClaimed ==
    (Built /\ git.status \in {Status_A_M_U, Status_A_A_M_U}) =>
        HasModifier(<<"|", "+", "!", "?", "|">>)

Occurrences(c, str) == Cardinality({i \in 1..Len(str) : str[i] = c})

\* C5 (amended): for one added, one modified and one untracked line the modifier
\* string is exactly "|!+?|" (glyphs in code-point order), a second added line
\* leaves it unchanged, and no bucket contributes its glyph more than once.
C5_ModifierSorted ==
    /\ (Built /\ git.status \in {Status_A_M_U, Status_A_A_M_U}) =>
            HasModifier(<<"|", "!", "+", "?", "|">>)
    /\ Built => /\ HasModifier(mod_str(mods.val))
                /\ \A g \in {"+", "!", "-", "?"} :
                      Occurrences(g, mod_str(mods.val)) <= 1

\* C5 witness: the listing with two added lines was rendered with "+" once.
C5_Witness ==
    /\ Built /\ git.status = Status_A_A_M_U
    /\ HasModifier(<<"|", "!", "+", "?", "|">>)

\* C6 (as claimed): every status line falls into one of the four buckets, lines
\* with any other code into the unrecognized/untracked one, so a status listing
\* with a changed path never gives an empty modifier string.
C6_EveryLineClassified ==
    (Built /\ git.status # {}) =>
        /\ ~HasModifier(<<>>)
        /\ (git.status \cap {6, 7, 8} # {}) => "unknown" \in {mods.val[i] : i \in 1..Len(mods.val)}

\* a git invocation that the constructor ran has failed
GitFailed == mods.exc # "none" \/ head.exc # "none"

\* C7 (as claimed): no failure of a git invocation leaves the constructor as an
\* exception; the fragment is then built empty, in the default colour.
C7_GitNeverPropagates ==
    /\ pc # "raised"
    /\ (pc = "done" /\ GitFailed) =>
            fragment.content = <<>> /\ fragment.color = ColorDefault

(***************************************************************************)
(* PWDFragment                                                             *)
(***************************************************************************)
DefaultMaxLen == 60

\* s[start:] for a possibly negative start
SliceFrom(s, start) ==
    LET from == IF start < 0
                THEN (IF Len(s) + start < 0 THEN 0 ELSE Len(s) + start)
                ELSE start
    IN SubSeq(s, from + 1, Len(s))

Dots == <<".", ".", ".">>

\* the mutant of get_shortened_pwd: the head of the path is kept, not its tail
get_shortened_pwd_keeps_head(the_pwd, HOME, the_max_len) ==
    LET _pwd == Replace(the_pwd, HOME, <<"~">>)
    IN IF Len(_pwd) > the_max_len
       THEN Dots \o SubSeq(_pwd, 1, the_max_len - 3)
       ELSE _pwd

\* PWDFragment._get_shortened_pwd
get_shortened_pwd(the_pwd, HOME, the_max_len) ==
    LET _pwd == Replace(the_pwd, HOME, <<"~">>)
    IN IF Len(_pwd) > the_max_len
       THEN Dots \o SliceFrom(_pwd, -(the_max_len - 3))
       ELSE _pwd

\* PWDFragment.__init__, format_str "({})"; a None pwd has no replace()
PWDFragment(the_pwd, HOME, color, the_max_len) ==
    IF ~the_pwd.some THEN Raise("AttributeError")
    ELSE Ok(Part("PWDFragment",
                 <<"(">> \o get_shortened_pwd(the_pwd.v, HOME, the_max_len) \o <<")">>,
                 color, <<>>))

(***************************************************************************)
(* SpecPwd: _get_shortened_pwd over bounded paths, homes and max_len       *)
(***************************************************************************)
Home_user == <<"/", "h", "/", "u">>
Home_none == <<"N", "O", "_", "H", "O", "M", "E">>

PathAlphabet == <<"/", "a", "b", "/", "c", "d", "e", "/", "f", "g">>

\* a path of n characters, no two neighbouring characters alike
PathOfLen(n) == [i \in 1..n |-> PathAlphabet[((i - 1) % Len(PathAlphabet)) + 1]]

PathSet ==
    { PathOfLen(n) : n \in 0..MaxPathLen }
    \cup { Home_user \o PathOfLen(n) : n \in 0..MaxPathLen }
    \cup { <<"/", "x">> \o Home_user \o PathOfLen(n) : n \in 0..2 }
    \cup { PathOfLen(DefaultMaxLen + 10), PathOfLen(DefaultMaxLen) }

InitPwd ==
    /\ pc = "shorten"
    /\ pwd \in PathSet
    /\ home \in {Home_user, Home_none}
    /\ max_len \in (0..MaxMaxLen) \cup {DefaultMaxLen}
    /\ path = <<>>
    /\ RuleUnused /\ GitUnused /\ SrvUnused

\* self.path = self._get_shortened_pwd(max_len=max_len)
Shorten ==
    /\ pc = "shorten"
    /\ path' = get_shortened_pwd(pwd, home, max_len)
    /\ pc' = "done"
    /\ UNCHANGED <<ruleVars, gitVars, pwd, home, max_len, srvVars>>

NextPwd == Shorten

SpecPwd == InitPwd /\ [][NextPwd]_vars

(***************************************************************************)
(* Claims about the directory fragment (checked under SpecPwd)             *)
(***************************************************************************)
AfterHome == Replace(pwd, home, <<"~">>)

\* C9 (as claimed; max_len >= 3, so that max_len characters can start with
\* "..."): a path longer than max_len is shortened to exactly max_len characters,
\* starting with "..." and ending with the path's last max_len - 3 characters; a
\* path of at most max_len characters is returned unchanged.
C9_ShortenedToMaxLen ==
    (pc = "done" /\ max_len >= 3) =>
        IF Len(AfterHome) > max_len
        THEN /\ Len(path) = max_len
             /\ SubSeq(path, 1, 3) = Dots
             /\ \A k \in 1..(max_len - 3) :
                    path[Len(path) - k + 1] = AfterHome[Len(AfterHome) - k + 1]
        ELSE path = AfterHome

\* the path with its home prefix, and nothing else, replaced by "~"
HomePrefixReplaced ==
    IF Len(home) <= Len(pwd) /\ SubSeq(pwd, 1, Len(home)) = home
    THEN <<"~">> \o SubSeq(pwd, Len(home) + 1, Len(pwd))
    ELSE pwd

\* C13 (as claimed, for a path short enough not to be cut to max_len): a PWD that
\* starts with HOME is shown as "~" followed by the remainder, and a PWD that does
\* not start with HOME is shown unchanged, even if HOME occurs further inside it.
C13_HomeOnlyAsPrefix ==
    (pc = "done" /\ Len(pwd) <= max_len) => path = HomePrefixReplaced

(***************************************************************************)
(* The remaining fragment constructors of async_prompt.py                  *)
(***************************************************************************)
RECURSIVE LastIndexOf(_, _, _)
\* the last position of character c in s[1..i], 0 when absent
LastIndexOf(s, c, i) ==
    IF i = 0 THEN 0 ELSE IF s[i] = c THEN i ELSE LastIndexOf(s, c, i - 1)

\* s.split("/")[-1]
LastSegment(s) == SubSeq(s, LastIndexOf(s, "/", Len(s)) + 1, Len(s))

Glyph_snake == "<snake>"      \* U+1F40D, one character
Glyph_hexagon == "<hexagon>"  \* U+2B21, one character
Glyph_arrow == "<arrow>"      \* U+27A4, one character
Glyph_return == "<return>"    \* U+23CE, one character

\* VirtualEnvFragment.__init__ with format_str = before {} after
VirtualEnvFragment(virtual_env_path, color, before, after) ==
    IF virtual_env_path # <<>>
    THEN Part("VirtualEnvFragment", before \o LastSegment(virtual_env_path) \o after,
              color, <<>>)
    ELSE Part("VirtualEnvFragment", <<>>, color, <<>>)

TwoDigits(n) == <<Digits[(n \div 10) + 1], Digits[(n % 10) + 1]>>

\* TimeFragment.__init__: datetime.now().strftime("[%H:%M:%S]")
TimeFragment(t, color) ==
    Part("TimeFragment",
         <<"[">> \o TwoDigits(t.h) \o <<":">> \o TwoDigits(t.m) \o <<":">>
         \o TwoDigits(t.s) \o <<"]">>,
         color, <<>>)

DigitValue(c) == CHOOSE d \in 0..9 : Digits[d + 1] = c
IsDigit(c) == \E d \in 1..10 : Digits[d] = c

RECURSIVE Strip(_)
\* str.strip()
Strip(s) ==
    IF s = <<>> THEN s
    ELSE IF s[1] \in Whitespace THEN Strip(Tail(s))
    ELSE IF s[Len(s)] \in Whitespace THEN Strip(SubSeq(s, 1, Len(s) - 1))
    ELSE s

RECURSIVE DigitsValue(_, _)
DigitsValue(s, acc) ==
    IF s = <<>> THEN acc
    ELSE IF s[1] = "_" THEN DigitsValue(Tail(s), acc)
    ELSE DigitsValue(Tail(s), acc * 10 + DigitValue(s[1]))

\* int(str): optional blanks, an optional sign, digits with single underscores
\* between them; anything else is a ValueError
IntOfStr(str) ==
    LET t == Strip(str)
        signed == t # <<>> /\ t[1] \in {"+", "-"}
        d == IF signed THEN Tail(t) ELSE t
        wellformed ==
            /\ d # <<>>
            /\ IsDigit(d[1]) /\ IsDigit(d[Len(d)])
            /\ \A i \in 1..Len(d) : IsDigit(d[i]) \/ d[i] = "_"
            /\ \A i \in 1..(Len(d) - 1) : ~(d[i] = "_" /\ d[i + 1] = "_")
    IN IF ~wellformed THEN Raise("ValueError")
       ELSE Ok(IF signed /\ t[1] = "-" THEN -DigitsValue(d, 0) ELSE DigitsValue(d, 0))

\* int(x) of a value that is a str when the client sent it, else the int default
IntOf(value, default) == IF value.some THEN IntOfStr(value.v) ELSE Ok(default)

\* ReturnStatusFragment.__init__ of async_prompt.py, format_str "{} <return>"
ReturnStatusFragment(return_status_str, color) ==
    LET return_status == IntOf(return_status_str, 0)
    IN IF return_status.exc # "none" THEN return_status
       ELSE IF return_status.val # 0
            THEN Ok(Part("ReturnStatusFragment",
                         IntToStr(return_status.val) \o <<" ", Glyph_return>>,
                         color, <<>>))
       ELSE Ok(Part("ReturnStatusFragment", <<>>, color, <<>>))

\* sep.join(str(fragment) for fragment in fragments if fragment)
JoinTruthy(sep, fragments) ==
    Join(sep, SelectNonEmpty([i \in 1..Len(fragments) |->
                                 IF PartLen(fragments[i]) # 0
                                 THEN PartStr(fragments[i]) ELSE <<>>]))

(***************************************************************************)
(* The client's environment on the wire, and handle_client's parse of it   *)
(***************************************************************************)
NUL == "<NUL>"                \* the byte 0, one character

Key_PWD == <<"P", "W", "D">>
Key_LAST_CMD == <<"L", "A", "S", "T", "_", "C", "M", "D">>
Key_LAST_EXIT_CODE ==
    <<"L", "A", "S", "T", "_", "E", "X", "I", "T", "_", "C", "O", "D", "E">>
Key_VIRTUAL_ENV == <<"V", "I", "R", "T", "U", "A", "L", "_", "E", "N", "V">>
Key_NODE_VIRTUAL_ENV == <<"N", "O", "D", "E", "_">> \o Key_VIRTUAL_ENV
Key_CONDA_DEFAULT_ENV ==
    <<"C", "O", "N", "D", "A", "_", "D", "E", "F", "A", "U", "L", "T", "_", "E", "N", "V">>
Key_COLS == <<"C", "O", "L", "S">>

RECURSIVE Serialize(_)
\* what the client writes: KEY=VALUE pairs, each ended by a NUL byte
Serialize(pairs) ==
    IF pairs = <<>> THEN <<>>
    ELSE pairs[1][1] \o <<"=">> \o pairs[1][2] \o <<NUL>> \o Serialize(Tail(pairs))

RECURSIVE Split(_, _)
\* s.split(c)
Split(s, c) ==
    LET i == Find(s, <<c>>, 1)
    IN IF i = 0 THEN <<s>>
       ELSE <<SubSeq(s, 1, i - 1)>> \o Split(SubSeq(s, i + 1, Len(s)), c)

\* dict.update({var: value})
Update(env, var, value) ==
    IF \E i \in 1..Len(env) : env[i][1] = var
    THEN [i \in 1..Len(env) |-> IF env[i][1] = var THEN <<var, value>> ELSE env[i]]
    ELSE Append(env, <<var, value>>)

\* dict.get(key): None when absent
Get(env, key) ==
    IF \E i \in 1..Len(env) : env[i][1] = key
    THEN Some(env[CHOOSE i \in 1..Len(env) : env[i][1] = key][2])
    ELSE None

GetOr(env, key, default) == IF Get(env, key).some THEN Get(env, key).v ELSE default

RECURSIVE ParseEnvironment(_, _)
\* the loop over client_environment_str.split("\0"): empty pieces are skipped, a
\* piece without "=" fails to unpack, is logged and skipped
ParseEnvironment(pieces, env) ==
    IF pieces = <<>> THEN env
    ELSE LET env_pair == pieces[1]
             eq == Find(env_pair, <<"=">>, 1)
         IN IF env_pair = <<>> \/ eq = 0
            THEN ParseEnvironment(Tail(pieces), env)
            ELSE ParseEnvironment(Tail(pieces),
                     Update(env, SubSeq(env_pair, 1, eq - 1),
                            SubSeq(env_pair, eq + 1, Len(env_pair))))

Output1 ==
    <<"f", "u", "n", "c", "t", "i", "o", "n", " ", "t", "o", "p", "l", "i", "n", "e",
      "(", ")", "{", "\n", " ", " ", " ", " ", "e", "c", "h", "o", " ", "'">>

Output2 ==
    <<"'", "\n", "}", ";", "\n", "t", "o", "p", "l", "i", "n", "e", ";", "\n", "e",
      "x", "p", "o", "r", "t", " ", "P", "R", "O", "M", "P", "T", "=", "\"", "$",
      "(", "e", "c", "h", "o", " ", "\"">>

Output3 ==
    <<"\"", ")", "\"", ";", "\n", "e", "x", "p", "o", "r", "t", " ", "R", "P", "R",
      "O", "M", "P", "T", "=", "\"", "$", "(", "e", "c", "h", "o", " ", "\"">>

Output4 ==
    <<"\"", ")", "\"", ";", "\n", "e", "x", "p", "o", "r", "t", " ", "L", "A", "S",
      "T", "_", "C", "M", "D", "=", "\"", "\"", "\n">>


\* OUTPUT.format(topline=..., prompt=..., rprompt=...)
OUTPUT(the_topline, the_prompt, the_rprompt) ==
    Output1 \o the_topline \o Output2 \o the_prompt \o Output3 \o the_rprompt \o Output4

DefaultCols == 80

(***************************************************************************)
(* prompt.py: the one-shot renderer                                        *)
(***************************************************************************)
\* LastCommandFragment.__init__ of prompt.py: a backslash becomes four
LastCommandFragment_cli(LAST_CMD, color) ==
    LET content == IF LAST_CMD # <<>>
                   THEN <<"[", "'">>
                        \o Replace(quote(LAST_CMD), <<"\\">>, <<"\\", "\\", "\\", "\\">>)
                        \o <<"'", "]">>
                   ELSE <<>>
    IN Part("LastCommandFragment", content, color, LAST_CMD)

\* VirtualEnvFragment.__init__ / CondaEnvFragment.__init__ of prompt.py,
\* format_str "({})": a KeyError leaves the fragment empty and uncoloured
EnvFragment_cli(env, key, color) ==
    IF Get(env, key).some
    THEN Part("VirtualEnvFragment",
              <<"(">> \o LastSegment(Get(env, key).v) \o <<")">>, color, <<>>)
    ELSE EmptyPart("VirtualEnvFragment")

\* ReturnStatusFragment.__init__ of prompt.py
ReturnStatusFragment_cli(return_status, color) ==
    IF return_status # 0
    THEN Part("ReturnStatusFragment",
              IntToStr(return_status) \o <<" ", Glyph_return>>, color, <<>>)
    ELSE Part("ReturnStatusFragment", <<>>, color, <<>>)

\* "{0:{fill}^{cols}}".format(text, fill=fill, cols=cols): a negative width is a
\* ValueError; an odd padding puts the extra fill character on the right
FormatCentered(text, fill, cols) ==
    LET pad == cols - Len(text)
        left == pad \div 2
    IN IF cols < 0 THEN Raise("ValueError")
       ELSE IF pad <= 0 THEN Ok(text)
       ELSE Ok(Rep(fill, left) \o text \o Rep(fill, pad - left))

\* embed_in_horizontal_rule of prompt.py; width is what `tput cols` printed
embed_in_horizontal_rule_cli(width, left, center, right, rule_char) ==
    LET centered == FormatCentered(uncolorized_str(center), rule_char,
                                   width - ContainerLen(left) - ContainerLen(right))
    IN IF centered.exc # "none" THEN centered
       ELSE Ok(ContainerStr(NonZeroWidth(left))
               \o Replace(centered.val, uncolorized_str(center),
                          ContainerStr(NonZeroWidth(center)))
               \o ContainerStr(NonZeroWidth(right)))

Unknown == <<"U", "n", "k", "n", "o", "w", "n">>

NotRun == [ran |-> FALSE, exc |-> "none", topline |-> <<>>, prompt |-> <<>>,
           rprompt |-> <<>>]

Failed(e) == [NotRun EXCEPT !.ran = TRUE, !.exc = e]

\* the module-level reads of the environment, then main()
main(env, HOME, repo, t, cols) ==
    LET LAST_EXIT_CODE == IntOf(Get(env, Key_LAST_EXIT_CODE), 0)
        LAST_CMD == GetOr(env, Key_LAST_CMD, <<>>)
        PWD == GetOr(env, Key_PWD, Unknown)
        git_part == GitInfoFragment(Some(PWD), repo, ColorBlue)
        left == Container(<<git_part.val, LastCommandFragment_cli(LAST_CMD, ColorGreen)>>,
                          <<>>)
        center == Container(<<PWDFragment(Some(PWD), HOME, ColorTeal, DefaultMaxLen).val>>,
                            RULE_CHAR)
        right == Container(<<TimeFragment(t, ColorGray)>>, RULE_CHAR)
        the_prompt ==
            JoinTruthy(<<" ">>,
                       <<EnvFragment_cli(env, Key_VIRTUAL_ENV, ColorTeal),
                         EnvFragment_cli(env, Key_CONDA_DEFAULT_ENV, ColorGreen),
                         ColoredTextFragment(<<Glyph_arrow, " ">>, ColorRed)>>)
        line == embed_in_horizontal_rule_cli(cols, left, center, right, RULE_CHAR[1])
    IN IF LAST_EXIT_CODE.exc # "none" THEN Failed(LAST_EXIT_CODE.exc)
       ELSE IF git_part.exc # "none" THEN Failed(git_part.exc)
       ELSE IF line.exc # "none" THEN Failed(line.exc)
       ELSE [ran |-> TRUE, exc |-> "none", topline |-> line.val, prompt |-> the_prompt,
             rprompt |-> PartStr(ReturnStatusFragment_cli(LAST_EXIT_CODE.val, ColorRed))]

(***************************************************************************)
(* Spec: one connection handled by handle_client, and the one-shot         *)
(* renderer run in the same context                                        *)
(***************************************************************************)
Pair(key, value) == IF value.some THEN <<(<<key, value.v>>)>> ELSE <<>>

Environs ==
    { Pair(Key_PWD, p) \o Pair(Key_LAST_CMD, c) \o Pair(Key_LAST_EXIT_CODE, x)
      \o Pair(Key_VIRTUAL_ENV, v) \o Pair(Key_NODE_VIRTUAL_ENV, n)
      \o Pair(Key_CONDA_DEFAULT_ENV, n) \o Pair(Key_COLS, w) :
        p \in {None, Some(Dir_repo), Some(Home_user \o Dir_repo)},
        c \in {None, Some(<<"l", "s">>), Some(<<"a", " ", "b">>), Some(<<"a", "\\", "b">>)},
        x \in {None, Some(<<"0">>), Some(<<"2">>), Some(<<"x">>)},
        v \in {None, Some(<<"/", "e", "/", "v">>)},
        n \in {None, Some(<<"/", "n", "/", "w">>)},
        w \in {None, Some(<<"4", "0">>), Some(<<"4", "1">>), Some(<<"4", "x">>)} }

SrvRepos ==
    { Repo([kind |-> "branch", name |-> Name_main], {}, {}, NoFailure, TRUE),
      Repo([kind |-> "detached_at", name |-> Name_v1], {Name_v1}, {1, 3, 5}, NoFailure, TRUE),
      Repo([kind |-> "none", name |-> <<>>], {},  {},
           [NoFailure EXCEPT !.status = "CalledProcessError"], TRUE),
      Repo([kind |-> "branch", name |-> Name_main], {}, {}, NoFailure, FALSE) }

Times == { [h |-> 9, m |-> 5, s |-> 0] }

Init ==
    /\ pc = "connect"
    /\ environ \in Environs
    /\ git \in SrvRepos
    /\ home = Home_user
    /\ now \in Times
    /\ payload = <<>>
    /\ client_environment = <<>>
    /\ left_container = Container(<<>>, <<>>)
    /\ center_container = Container(<<>>, <<>>)
    /\ right_container = Container(<<>>, <<>>)
    /\ terminal_width = 0
    /\ topline = <<>> /\ prompt_str = <<>> /\ rprompt = <<>>
    /\ exc = "none"
    /\ reply = <<>>
    /\ closed = FALSE
    /\ cli = NotRun
    /\ directory = Unused /\ mods = Unused /\ head = Unused /\ fragment = Unused
    /\ pwd = Unused /\ max_len = 0 /\ path = Unused

Junk == <<"j", "u", "n", "k", NUL>>    \* a pair without "="

\* the client connects and writes its environment, well formed or with a stray piece
ClientSend ==
    /\ pc = "connect"
    /\ \E junk \in {<<>>, Junk} : payload' = Serialize(environ) \o junk
    /\ pc' = "read"
    /\ UNCHANGED <<ruleVars, gitVars, pwdVars, environ, client_environment, now,
                   prompt_str, rprompt, exc, reply, closed, cli>>

\* reader.read(), decode, and the loop that fills client_environment
ReadEnvironment ==
    /\ pc = "read"
    /\ client_environment' = ParseEnvironment(Split(payload, NUL), <<>>)
    /\ pc' = "left"
    /\ UNCHANGED <<ruleVars, gitVars, pwdVars, environ, payload, now, prompt_str,
                   rprompt, exc, reply, closed, cli>>

\* left_container = PromptPartContainer(GitInfoFragment(...), LastCommandFragment(...))
BuildLeft ==
    /\ pc = "left"
    /\ LET g == GitInfoFragment(Get(client_environment, Key_PWD), git, ColorBlue)
       IN IF g.exc # "none"
          THEN /\ exc' = g.exc /\ pc' = "raised"
               /\ UNCHANGED left_container
          ELSE /\ left_container' =
                    Container(<<g.val,
                                LastCommandFragment(Get(client_environment, Key_LAST_CMD),
                                                    ColorGreen)>>, <<>>)
               /\ pc' = "center"
               /\ UNCHANGED exc
    /\ UNCHANGED <<terminal_width, center_container, right_container, topline, gitVars,
                   pwdVars, environ, payload, client_environment, now, prompt_str,
                   rprompt, reply, closed, cli>>

\* center_container = PromptPartContainer(PWDFragment(...))
BuildCenter ==
    /\ pc = "center"
    /\ LET c == PWDFragment(Get(client_environment, Key_PWD), home, ColorTeal,
                            DefaultMaxLen)
       IN IF c.exc # "none"
          THEN /\ exc' = c.exc /\ pc' = "raised"
               /\ UNCHANGED center_container
          ELSE /\ center_container' = Container(<<c.val>>, RULE_CHAR)
               /\ pc' = "right"
               /\ UNCHANGED exc
    /\ UNCHANGED <<terminal_width, left_container, right_container, topline, gitVars,
                   pwdVars, environ, payload, client_environment, now, prompt_str,
                   rprompt, reply, closed, cli>>

\* right_container = PromptPartContainer(TimeFragment(...)); prompt_str = "".join(...)
BuildRightAndPrompt ==
    /\ pc = "right"
    /\ right_container' = Container(<<TimeFragment(now, ColorGray)>>, RULE_CHAR)
    /\ prompt_str' =
         JoinTruthy(<<>>,
            <<VirtualEnvFragment(GetOr(client_environment, Key_VIRTUAL_ENV, <<>>),
                                 ColorTeal, <<"[", Glyph_snake>>, <<"]">>),
              VirtualEnvFragment(GetOr(client_environment, Key_NODE_VIRTUAL_ENV, <<>>),
                                 ColorGreen, <<"[", Glyph_hexagon, " ">>, <<"]">>),
              ColoredTextFragment(<<Glyph_arrow, " ">>, ColorRed)>>)
    /\ pc' = "topline"
    /\ UNCHANGED <<terminal_width, left_container, center_container, topline, gitVars,
                   pwdVars, environ, payload, client_environment, now, rprompt, exc,
                   reply, closed, cli>>

\* "topline": embed_in_horizontal_rule(client_environment.get("COLS", 80), ...)
BuildTopline ==
    /\ pc = "topline"
    /\ LET w == IntOf(Get(client_environment, Key_COLS), DefaultCols)
       IN IF w.exc # "none"
          THEN /\ exc' = w.exc /\ pc' = "raised"
               /\ UNCHANGED ruleVars
          ELSE /\ terminal_width' = w.val
               /\ topline' = embed_in_horizontal_rule(w.val, left_container,
                                 center_container, right_container, RULE_CHAR[1])
               /\ left_container' = NonZeroWidth(left_container)
               /\ center_container' = NonZeroWidth(center_container)
               /\ right_container' = NonZeroWidth(right_container)
               /\ pc' = "rprompt"
               /\ UNCHANGED exc
    /\ UNCHANGED <<gitVars, pwdVars, environ, payload, client_environment, now,
                   prompt_str, rprompt, reply, closed, cli>>

\* "rprompt": ReturnStatusFragment(client_environment.get("LAST_EXIT_CODE", 0), ...)
BuildRprompt ==
    /\ pc = "rprompt"
    /\ LET r == ReturnStatusFragment(Get(client_environment, Key_LAST_EXIT_CODE), ColorRed)
       IN IF r.exc # "none"
          THEN /\ exc' = r.exc /\ pc' = "raised"
               /\ UNCHANGED rprompt
          ELSE /\ rprompt' = PartStr(r.val)
               /\ pc' = "write"
               /\ UNCHANGED exc
    /\ UNCHANGED <<ruleVars, gitVars, pwdVars, environ, payload, client_environment, now,
                   prompt_str, reply, closed, cli>>

\* writer.write(OUTPUT.format(**prompt_dir).encode("utf8"))
Write ==
    /\ pc = "write"
    /\ reply' = Append(reply, OUTPUT(topline, prompt_str, rprompt))
    /\ pc' = "close"
    /\ UNCHANGED <<ruleVars, gitVars, pwdVars, environ, payload, client_environment, now,
                   prompt_str, rprompt, exc, closed, cli>>

\* writer.close()
Close ==
    /\ pc = "close"
    /\ closed' = TRUE
    /\ pc' = "done"
    /\ UNCHANGED <<ruleVars, gitVars, pwdVars, environ, payload, client_environment, now,
                   prompt_str, rprompt, exc, reply, cli>>

\* `tput cols` in the terminal whose width the client reports as COLS
TputCols(env) ==
    LET w == IntOf(Get(env, Key_COLS), DefaultCols)
    IN IF w.exc = "none" THEN w.val ELSE DefaultCols

\* prompt.py run once by the same shell, in the same directory, at the same time
OneShot ==
    /\ ~cli.ran
    /\ cli' = main(environ, home, git, now, TputCols(environ))
    /\ UNCHANGED <<pc, ruleVars, gitVars, pwdVars, environ, payload, client_environment,
                   now, prompt_str, rprompt, exc, reply, closed>>

Next ==
    \/ ClientSend \/ ReadEnvironment \/ BuildLeft \/ BuildCenter \/ BuildRightAndPrompt
    \/ BuildTopline \/ BuildRprompt \/ Write \/ Close \/ OneShot

Spec == Init /\ [][Next]_vars

(***************************************************************************)
(* Claims about the server and the two renderers (checked under Spec)      *)
(***************************************************************************)
\* COLS and LAST_EXIT_CODE are absent from the payload or well-formed integers
WellFormedIntegers ==
    /\ IntOf(Get(environ, Key_COLS), DefaultCols).exc = "none"
    /\ IntOf(Get(environ, Key_LAST_EXIT_CODE), 0).exc = "none"

\* C8 (as claimed, as what a finished handler has done): for a payload whose COLS
\* and LAST_EXIT_CODE are absent or well-formed, with or without PWD, LAST_CMD and
\* the virtual-environment keys, the handler never ends without replying: it writes
\* exactly one snippet holding topline, prompt and rprompt and closes the connection.
C8_AlwaysReplies ==
    WellFormedIntegers =>
        /\ pc # "raised"
        /\ Len(reply) <= 1
        /\ closed => Len(reply) = 1
        /\ (pc = "done") =>
              /\ closed
              /\ reply = <<OUTPUT(topline, prompt_str, rprompt)>>

\* C10 (as claimed): in the same context the one-shot renderer and the server
\* renderer produce the same topline, prompt and rprompt strings.
C10_SameOutput ==
    (pc = "done" /\ cli.ran /\ cli.exc = "none") =>
        /\ cli.topline = topline
        /\ cli.prompt = prompt_str
        /\ cli.rprompt = rprompt

\* the width the payload asks for: the integer COLS holds, 80 when COLS is absent
\* or does not hold an integer
ColsOrDefault ==
    LET cols == Get(client_environment, Key_COLS)
    IN IF cols.some /\ IntOfStr(cols.v).exc = "none" THEN IntOfStr(cols.v).val
       ELSE DefaultCols

\* C11 (as claimed): whenever the handler computes the top line, the terminal width
\* it uses is the integer value of the client's COLS, and 80 when COLS is absent
\* from the payload or cannot be parsed as an integer; the top line is computed
\* and the handler goes on to the rprompt.
C11_ColsOrDefault ==
    [][BuildTopline => (pc' = "rprompt" /\ terminal_width' = ColsOrDefault)]_vars

(***************************************************************************)
(* SpecConc: the server's event loop handling several connections.  Every   *)
(* connection has its own handle_client task with its own locals; a task   *)
(* runs until it awaits (the only await is reader.read) or ends, and no     *)
(* other task runs meanwhile.  Here pc, the containers, the payload and the *)
(* other locals of handle_client are functions of the connection.           *)
(***************************************************************************)
Conns == 1..MaxConns

ConcEnvirons ==
    { Pair(Key_PWD, Some(Dir_repo)) \o Pair(Key_LAST_CMD, Some(<<"l", "s">>))
        \o Pair(Key_COLS, Some(<<"4", "0">>)),
      Pair(Key_PWD, Some(Home_user \o Dir_repo))
        \o Pair(Key_LAST_EXIT_CODE, Some(<<"2">>))
        \o Pair(Key_VIRTUAL_ENV, Some(<<"/", "e", "/", "v">>))
        \o Pair(Key_COLS, Some(<<"4", "1">>)),
      Pair(Key_PWD, Some(Dir_repo)),
      Pair(Key_LAST_CMD, Some(<<"a", " ", "b">>)),
      Pair(Key_PWD, Some(Dir_repo)) \o Pair(Key_COLS, Some(<<"4", "x">>)) }

ConcRepos ==
    { Repo([kind |-> "branch", name |-> Name_main], {}, {}, NoFailure, TRUE),
      Repo([kind |-> "detached_at", name |-> Name_v1], {Name_v1}, {1, 3, 5}, NoFailure, TRUE) }

EmptyContainer == Container(<<>>, <<>>)

InitConc ==
    /\ pc = [c \in Conns |-> "connect"]
    /\ environ \in [Conns -> ConcEnvirons]
    /\ git \in ConcRepos
    /\ home = Home_user
    /\ now \in Times
    /\ payload = [c \in Conns |-> <<>>]
    /\ client_environment = [c \in Conns |-> <<>>]
    /\ left_container = [c \in Conns |-> EmptyContainer]
    /\ center_container = [c \in Conns |-> EmptyContainer]
    /\ right_container = [c \in Conns |-> EmptyContainer]
    /\ terminal_width = [c \in Conns |-> 0]
    /\ topline = [c \in Conns |-> <<>>]
    /\ prompt_str = [c \in Conns |-> <<>>]
    /\ rprompt = [c \in Conns |-> <<>>]
    /\ exc = [c \in Conns |-> "none"]
    /\ reply = [c \in Conns |-> <<>>]
    /\ closed = [c \in Conns |-> FALSE]
    /\ cli = Unused
    /\ directory = Unused /\ mods = Unused /\ head = Unused /\ fragment = Unused
    /\ pwd = Unused /\ max_len = 0 /\ path = Unused

\* the positions of handle_client between the return of its await and its end
Running == {"left", "center", "right", "topline", "rprompt", "write", "close"}

\* the event loop runs task c only when no other task is in the middle of a run
MayRun(c) == \A d \in Conns \ {c} : pc[d] \notin Running

\* the mutant of read: every task reads the stream of the first connection
read_shared_stream(reader, streams) == streams[1]

\* await reader.read(chunksize): the bytes that arrived on this task's own connection
read(reader, streams) == streams[reader]

\* the client of connection c writes its environment
ConnSend(c) ==
    /\ pc[c] = "connect"
    /\ \E junk \in {<<>>, Junk} :
          payload' = [payload EXCEPT ![c] = Serialize(environ[c]) \o junk]
    /\ pc' = [pc EXCEPT ![c] = "read"]
    /\ UNCHANGED <<ruleVars, gitVars, pwdVars, environ, client_environment, now,
                   prompt_str, rprompt, exc, reply, closed, cli>>

\* the await returns; client_environment = {} and the loop that fills it
ConnRead(c) ==
    /\ pc[c] = "read" /\ MayRun(c)
    /\ client_environment' =
         [client_environment EXCEPT
            ![c] = ParseEnvironment(Split(read(c, payload), NUL), <<>>)]
    /\ pc' = [pc EXCEPT ![c] = "left"]
    /\ UNCHANGED <<ruleVars, gitVars, pwdVars, environ, payload, now, prompt_str,
                   rprompt, exc, reply, closed, cli>>

\* left_container = PromptPartContainer(GitInfoFragment(...), LastCommandFragment(...))
ConnLeft(c) ==
    /\ pc[c] = "left" /\ MayRun(c)
    /\ LET g == GitInfoFragment(Get(client_environment[c], Key_PWD), git, ColorBlue)
       IN IF g.exc # "none"
          THEN /\ exc' = [exc EXCEPT ![c] = g.exc]
               /\ pc' = [pc EXCEPT ![c] = "raised"]
               /\ UNCHANGED left_container
          ELSE /\ left_container' =
                    [left_container EXCEPT
                       ![c] = Container(<<g.val,
                                 LastCommandFragment(Get(client_environment[c], Key_LAST_CMD),
                                                     ColorGreen)>>, <<>>)]
               /\ pc' = [pc EXCEPT ![c] = "center"]
               /\ UNCHANGED exc
    /\ UNCHANGED <<terminal_width, center_container, right_container, topline, gitVars,
                   pwdVars, environ, payload, client_environment, now, prompt_str,
                   rprompt, reply, closed, cli>>

\* center_container = PromptPartContainer(PWDFragment(...))
ConnCenter(c) ==
    /\ pc[c] = "center" /\ MayRun(c)
    /\ LET p == PWDFragment(Get(client_environment[c], Key_PWD), home, ColorTeal,
                            DefaultMaxLen)
       IN IF p.exc # "none"
          THEN /\ exc' = [exc EXCEPT ![c] = p.exc]
               /\ pc' = [pc EXCEPT ![c] = "raised"]
               /\ UNCHANGED center_container
          ELSE /\ center_container' =
                    [center_container EXCEPT ![c] = Container(<<p.val>>, RULE_CHAR)]
               /\ pc' = [pc EXCEPT ![c] = "right"]
               /\ UNCHANGED exc
    /\ UNCHANGED <<terminal_width, left_container, right_container, topline, gitVars,
                   pwdVars, environ, payload, client_environment, now, prompt_str,
                   rprompt, reply, closed, cli>>

\* right_container = PromptPartContainer(TimeFragment(...)); prompt_str = "".join(...)
ConnRightAndPrompt(c) ==
    /\ pc[c] = "right" /\ MayRun(c)
    /\ right_container' =
         [right_container EXCEPT
            ![c] = Container(<<TimeFragment(now, ColorGray)>>, RULE_CHAR)]
    /\ prompt_str' =
         [prompt_str EXCEPT ![c] =
            JoinTruthy(<<>>,
               <<VirtualEnvFragment(GetOr(client_environment[c], Key_VIRTUAL_ENV, <<>>),
                                    ColorTeal, <<"[", Glyph_snake>>, <<"]">>),
                 VirtualEnvFragment(GetOr(client_environment[c], Key_NODE_VIRTUAL_ENV, <<>>),
                                    ColorGreen, <<"[", Glyph_hexagon, " ">>, <<"]">>),
                 ColoredTextFragment(<<Glyph_arrow, " ">>, ColorRed)>>)]
    /\ pc' = [pc EXCEPT ![c] = "topline"]
    /\ UNCHANGED <<terminal_width, left_container, center_container, topline, gitVars,
                   pwdVars, environ, payload, client_environment, now, rprompt, exc,
                   reply, closed, cli>>

\* "topline": embed_in_horizontal_rule(client_environment.get("COLS", 80), ...)
ConnTopline(c) ==
    /\ pc[c] = "topline" /\ MayRun(c)
    /\ LET w == IntOf(Get(client_environment[c], Key_COLS), DefaultCols)
       IN IF w.exc # "none"
          THEN /\ exc' = [exc EXCEPT ![c] = w.exc]
               /\ pc' = [pc EXCEPT ![c] = "raised"]
               /\ UNCHANGED ruleVars
          ELSE /\ terminal_width' = [terminal_width EXCEPT ![c] = w.val]
               /\ topline' =
                    [topline EXCEPT
                       ![c] = embed_in_horizontal_rule(w.val, left_container[c],
                                  center_container[c], right_container[c], RULE_CHAR[1])]
               /\ left_container' =
                    [left_container EXCEPT ![c] = NonZeroWidth(left_container[c])]
               /\ center_container' =
                    [center_container EXCEPT ![c] = NonZeroWidth(center_container[c])]
               /\ right_container' =
                    [right_container EXCEPT ![c] = NonZeroWidth(right_container[c])]
               /\ pc' = [pc EXCEPT ![c] = "rprompt"]
               /\ UNCHANGED exc
    /\ UNCHANGED <<gitVars, pwdVars, environ, payload, client_environment, now,
                   prompt_str, rprompt, reply, closed, cli>>

\* "rprompt": ReturnStatusFragment(client_environment.get("LAST_EXIT_CODE", 0), ...)
ConnRprompt(c) ==
    /\ pc[c] = "rprompt" /\ MayRun(c)
    /\ LET r == ReturnStatusFragment(Get(client_environment[c], Key_LAST_EXIT_CODE),
                                     ColorRed)
       IN IF r.exc # "none"
          THEN /\ exc' = [exc EXCEPT ![c] = r.exc]
               /\ pc' = [pc EXCEPT ![c] = "raised"]
               /\ UNCHANGED rprompt
          ELSE /\ rprompt' = [rprompt EXCEPT ![c] = PartStr(r.val)]
               /\ pc' = [pc EXCEPT ![c] = "write"]
               /\ UNCHANGED exc
    /\ UNCHANGED <<ruleVars, gitVars, pwdVars, environ, payload, client_environment, now,
                   prompt_str, reply, closed, cli>>

\* writer.write(OUTPUT.format(**prompt_dir).encode("utf8")) on this task's writer
ConnWrite(c) ==
    /\ pc[c] = "write" /\ MayRun(c)
    /\ reply' = [reply EXCEPT
                   ![c] = Append(reply[c], OUTPUT(topline[c], prompt_str[c], rprompt[c]))]
    /\ pc' = [pc EXCEPT ![c] = "close"]
    /\ UNCHANGED <<ruleVars, gitVars, pwdVars, environ, payload, client_environment, now,
                   prompt_str, rprompt, exc, closed, cli>>

\* writer.close()
ConnClose(c) ==
    /\ pc[c] = "close" /\ MayRun(c)
    /\ closed' = [closed EXCEPT ![c] = TRUE]
    /\ pc' = [pc EXCEPT ![c] = "done"]
    /\ UNCHANGED <<ruleVars, gitVars, pwdVars, environ, payload, client_environment, now,
                   prompt_str, rprompt, exc, reply, cli>>

NextConc ==
    \E c \in Conns :
        \/ ConnSend(c) \/ ConnRead(c) \/ ConnLeft(c) \/ ConnCenter(c)
        \/ ConnRightAndPrompt(c) \/ ConnTopline(c) \/ ConnRprompt(c)
        \/ ConnWrite(c) \/ ConnClose(c)

SpecConc == InitConc /\ [][NextConc]_vars

(***************************************************************************)
(* Claims about concurrently handled connections (checked under SpecConc)  *)
(***************************************************************************)
\* what handle_client does with the text str alone, given git and the clock: the
\* exception that ends it, or the snippet it writes
Rendered(str) ==
    LET env == ParseEnvironment(Split(str, NUL), <<>>)
        g == GitInfoFragment(Get(env, Key_PWD), git, ColorBlue)
        p == PWDFragment(Get(env, Key_PWD), home, ColorTeal, DefaultMaxLen)
        w == IntOf(Get(env, Key_COLS), DefaultCols)
        r == ReturnStatusFragment(Get(env, Key_LAST_EXIT_CODE), ColorRed)
        the_prompt ==
            JoinTruthy(<<>>,
               <<VirtualEnvFragment(GetOr(env, Key_VIRTUAL_ENV, <<>>),
                                    ColorTeal, <<"[", Glyph_snake>>, <<"]">>),
                 VirtualEnvFragment(GetOr(env, Key_NODE_VIRTUAL_ENV, <<>>),
                                    ColorGreen, <<"[", Glyph_hexagon, " ">>, <<"]">>),
                 ColoredTextFragment(<<Glyph_arrow, " ">>, ColorRed)>>)
    IN IF g.exc # "none" THEN Raise(g.exc)
       ELSE IF p.exc # "none" THEN Raise(p.exc)
       ELSE IF w.exc # "none" THEN Raise(w.exc)
       ELSE IF r.exc # "none" THEN Raise(r.exc)
       ELSE Ok(OUTPUT(embed_in_horizontal_rule(w.val,
                          Container(<<g.val, LastCommandFragment(Get(env, Key_LAST_CMD),
                                                                 ColorGreen)>>, <<>>),
                          Container(<<p.val>>, RULE_CHAR),
                          Container(<<TimeFragment(now, ColorGray)>>, RULE_CHAR),
                          RULE_CHAR[1]),
                      the_prompt, PartStr(r.val)))

\* the locals and the output of the task of connection c
TaskState(c) ==
    <<pc[c], client_environment[c], left_container[c], center_container[c],
      right_container[c], terminal_width[c], topline[c], prompt_str[c], rprompt[c],
      exc[c], reply[c], closed[c]>>

\* the order of the steps of one handler: read, then render, then the single write
HandlerOrder ==
    { <<"connect", "read">>, <<"read", "left">>, <<"left", "center">>,
      <<"center", "right">>, <<"right", "topline">>, <<"topline", "rprompt">>,
      <<"rprompt", "write">>, <<"write", "close">>, <<"close", "done">>,
      <<"left", "raised">>, <<"center", "raised">>, <<"topline", "raised">>,
      <<"rprompt", "raised">> }

\* every connection's reply is what its own payload renders to
OwnPayloadOnly ==
    \A c \in Conns :
        /\ Len(reply[c]) <= 1
        /\ reply[c] # <<>> =>
              /\ pc[c] \in {"close", "done"}
              /\ Rendered(payload[c]).exc = "none"
              /\ reply[c] = <<Rendered(payload[c]).val>>
              /\ reply[c] = <<OUTPUT(topline[c], prompt_str[c], rprompt[c])>>
        /\ pc[c] \in {"close", "done"} => reply[c] # <<>>
        /\ pc[c] = "raised" => exc[c] = Rendered(payload[c]).exc
        /\ pc[c] \in {"connect", "read"} =>
              /\ client_environment[c] = <<>>
              /\ topline[c] = <<>> /\ prompt_str[c] = <<>> /\ rprompt[c] = <<>>
        /\ pc[c] \notin {"connect", "read"} =>
              client_environment[c] = ParseEnvironment(Split(payload[c], NUL), <<>>)

\* a step is a step of one connection, in the handler's order, and leaves the
\* locals and the output of every other connection as they were
OneTaskInOrder ==
    \E c \in Conns :
        /\ <<pc[c], pc'[c]>> \in HandlerOrder
        /\ \A d \in Conns \ {c} : TaskState(d)' = TaskState(d)

\* C12: under any interleaving of the connections' handlers, the reply written to
\* a connection is what that connection's own payload (with git and the clock)
\* renders to, a step of one handler changes nothing of another connection's
\* topline, prompt, rprompt or reply, and within one connection the read, the
\* render and the single write happen in that order.
C12_ConnectionsIsolated == []OwnPayloadOnly /\ [][OneTaskInOrder]_vars

\* two connections with different payloads have both been answered, each with
\* its own rendering, and the two replies differ
C12_Witness ==
    /\ pc[1] = "done" /\ pc[2] = "done"
    /\ payload[1] # payload[2]
    /\ reply[1] # reply[2]
    /\ reply[2] = <<Rendered(payload[2]).val>>

====
